---------------------------- MODULE Spec2Model ----------------------------
(***************************************************************************)
(* A model of the compiler front end of dark64/outer: the Type text        *)
(* grammar (ast/types.rs), the lexer (lexer/mod.rs) and the recursive      *)
(* descent parser (parser/mod.rs).                                         *)
(*                                                                         *)
(* A Rust String is a sequence of one-character strings; an Option is a    *)
(* sequence of length 0 (None) or 1 (Some); a Result is a record with an   *)
(* ok field.                                                               *)
(***************************************************************************)
EXTENDS Integers, Sequences, FiniteSets, TLC

VARIABLES
    cur,      \* types.rs: the value in hand, a Type, a text or an error
    hist,     \* types.rs: the calls of fmt and try_from made so far
    src,      \* lexer: the source text given to Lexer::new
    input,    \* Lexer.input: the characters not yet read
    line,     \* Lexer.line
    col,      \* Lexer.col
    calls,    \* lexer: the calls of next_token made so far, with what each returned
              \* (the parser's Peekable makes them too)
    peeked,   \* Parser.lexer (Peekable): the peeked slot, Option<Option<Token>>
    pc,       \* parser: the place of the parse in the code
    locals,   \* parser: the locals of consume_statement and consume_variable_definition
    stmts,    \* parser: parse_program's statements vector
    presult,  \* parser: what parse_program, or consume_block, returned
    block,    \* parser: consume_block's frame when the parse is of a block
    taken     \* parser: the tokens Peekable::next has given so far

typeVars == <<cur, hist>>
lexVars == <<src, input, line, col, calls>>
parseVars == <<peeked, pc, locals, stmts, presult, block, taken>>
vars ==
    <<cur, hist, src, input, line, col, calls, peeked, pc, locals, stmts, presult,
      block, taken>>

(***************************************************************************)
(* Bounds of the model.                                                    *)
(***************************************************************************)
MaxTypeSize == 3   \* Type values have at most this many constructors
MaxPieces == 5     \* a type text is made of at most this many lexemes
MaxOps == 3        \* fmt / try_from calls in a row on one value
MaxLexLen == 3     \* a lexer input drawn from the alphabet has at most this many characters
MaxCalls == 5      \* next_token is called at most this many times on one lexer
MaxToks == 5       \* a program made of lexemes has at most this many of them
MaxParams == 2     \* Function::new is given at most this many parameters
MaxBlockToks == 4  \* a block text made of lexemes has at most this many of them

(***************************************************************************)
(* Characters and strings.                                                 *)
(***************************************************************************)
None == <<>>
Some(x) == <<x>>

Letters ==
    {"a", "b", "c", "d", "e", "f", "g", "h", "i", "j", "k", "l", "m",
     "n", "o", "p", "q", "r", "s", "t", "u", "v", "w", "x", "y", "z",
     "A", "B", "C", "D", "E", "F", "G", "H", "I", "J", "K", "L", "M",
     "N", "O", "P", "Q", "R", "S", "T", "U", "V", "W", "X", "Y", "Z"}
DigitChars == <<"0", "1", "2", "3", "4", "5", "6", "7", "8", "9">>
Digits == {DigitChars[i] : i \in 1..10}

is_whitespace(c) == c \in {" ", "\n", "\t", "\r"}
is_ascii_digit(c) == c \in Digits
is_ascii_alphabetic(c) == c \in Letters

\* usize's Display: the decimal digits of n
RECURSIVE to_string(_)
to_string(n) ==
    IF n < 10 THEN <<DigitChars[n + 1]>>
    ELSE to_string(n \div 10) \o <<DigitChars[(n % 10) + 1]>>

\* [String]::join
RECURSIVE join(_, _)
join(strs, sep) ==
    IF strs = <<>> THEN <<>>
    ELSE IF Len(strs) = 1 THEN strs[1]
    ELSE strs[1] \o sep \o join(Tail(strs), sep)

\* str::starts_with, for a one-character pattern
starts_with(s, c) == s # <<>> /\ s[1] = c

\* a sequence without its last element
AllButLast(ts) == SubSeq(ts, 1, Len(ts) - 1)

\* str::find, for a one-character pattern: the 0-based index of the first
\* occurrence, -1 for None
find(s, c) ==
    IF \E i \in 1..Len(s) : s[i] = c
    THEN (CHOOSE i \in 1..Len(s) : s[i] = c /\ \A j \in 1..(i - 1) : s[j] # c) - 1
    ELSE -1

\* &s[from..to], 0-based, to excluded
slice(s, from, to) == SubSeq(s, from + 1, to)

\* s.chars().nth(n), 0-based
nth(s, n) == IF n + 1 \in 1..Len(s) THEN Some(s[n + 1]) ELSE None

\* str::split, for a one-character pattern: the pieces, empty ones included
RECURSIVE split(_, _)
split(s, c) ==
    LET i == find(s, c)
    IN  IF i = -1 THEN <<s>>
        ELSE <<slice(s, 0, i)>> \o split(slice(s, i + 1, Len(s)), c)

\* str::trim
RECURSIVE trim_start(_)
trim_start(s) ==
    IF s # <<>> /\ is_whitespace(s[1]) THEN trim_start(Tail(s)) ELSE s
RECURSIVE trim_end(_)
trim_end(s) ==
    IF s # <<>> /\ is_whitespace(s[Len(s)])
    THEN trim_end(SubSeq(s, 1, Len(s) - 1)) ELSE s
trim(s) == trim_end(trim_start(s))

(***************************************************************************)
(* ast/types.rs: Type, its Display and its TryFrom<String>.                *)
(***************************************************************************)
Type_Int(width) == [tag |-> "Int", width |-> width]
Type_UInt(width) == [tag |-> "UInt", width |-> width]
Type_Boolean == [tag |-> "Boolean"]
Type_String == [tag |-> "String"]
Type_Function(params, output) == [tag |-> "Function", params |-> params, output |-> output]

Ok(v) == [ok |-> TRUE, v |-> v]
InvalidType(s) == [ok |-> FALSE, kind |-> "InvalidType", msg |-> s]

s_i32 == <<"i", "3", "2">>
s_i64 == <<"i", "6", "4">>
s_u32 == <<"u", "3", "2">>
s_u64 == <<"u", "6", "4">>
s_bool == <<"b", "o", "o", "l">>
s_string == <<"s", "t", "r", "i", "n", "g">>

fmt_Int_swapped(width) == <<"u">> \o to_string(width)
fmt_Int(width) == <<"i">> \o to_string(width)
fmt_UInt(width) == <<"u">> \o to_string(width)

RECURSIVE fmt(_)
fmt(t) ==
    CASE t.tag = "Int" -> fmt_Int(t.width)
      [] t.tag = "UInt" -> fmt_UInt(t.width)
      [] t.tag = "Boolean" -> s_bool
      [] t.tag = "String" -> s_string
      [] t.tag = "Function" ->
            LET params == [i \in 1..Len(t.params) |-> fmt(t.params[i])]
            IN  <<"(">> \o join(params, <<",", " ">>) \o <<")">>
                \o (IF t.output # None THEN <<":", " ">> \o fmt(t.output[1]) ELSE <<>>)

\* Iterator::collect into Result<Vec<_>, _>: the values, or the first error
collect(results) ==
    IF \E i \in 1..Len(results) : ~results[i].ok
    THEN results[CHOOSE i \in 1..Len(results) :
                    ~results[i].ok /\ \A j \in 1..(i - 1) : results[j].ok]
    ELSE Ok([i \in 1..Len(results) |-> results[i].v])

RECURSIVE try_from(_)
try_from(value) ==
    CASE value = s_i32 -> Ok(Type_Int(32))
      [] value = s_i64 -> Ok(Type_Int(64))
      [] value = s_u32 -> Ok(Type_UInt(32))
      [] value = s_u64 -> Ok(Type_UInt(64))
      [] value = s_bool -> Ok(Type_Boolean)
      [] value = s_string -> Ok(Type_String)
      [] OTHER ->
            IF starts_with(value, "(")
            THEN LET index == find(value, ")")
                 IN  IF index = -1 THEN InvalidType(value)
                     ELSE LET pieces == SelectSeq(split(slice(value, 1, index), ","),
                                                  LAMBDA s : s # <<>>)
                              types == collect([i \in 1..Len(pieces) |->
                                                   try_from(trim(pieces[i]))])
                          IN  IF nth(value, index + 1) = Some(":")
                              THEN LET output ==
                                         try_from(trim(slice(value, index + 2, Len(value))))
                                   IN  IF ~output.ok THEN output
                                       ELSE IF ~types.ok THEN types
                                       ELSE Ok(Type_Function(types.v, Some(output.v)))
                              ELSE IF ~types.ok THEN types
                                   ELSE Ok(Type_Function(types.v, None))
            ELSE InvalidType(value)


(***************************************************************************)
(* The inputs of the Type grammar: Type values of a bounded size and texts *)
(* made of a bounded number of lexemes.                                    *)
(***************************************************************************)
Widths == {8, 32, 64}
Primitives ==
    {Type_Int(w) : w \in Widths} \cup {Type_UInt(w) : w \in Widths}
        \cup {Type_Boolean, Type_String}

\* TypesOfSize(n): the Type values made of n constructors;
\* TypeSeqsOfSize(n): the parameter lists whose types have n constructors in all
RECURSIVE TypesOfSize(_), TypeSeqsOfSize(_)
TypeSeqsOfSize(n) ==
    IF n = 0 THEN {<<>>}
    ELSE UNION {{<<t>> \o ps : t \in TypesOfSize(m), ps \in TypeSeqsOfSize(n - m)} :
                    m \in 1..n}
TypesOfSize(n) ==
    (IF n = 1 THEN Primitives ELSE {})
        \cup {Type_Function(ps, None) : ps \in TypeSeqsOfSize(n - 1)}
        \cup UNION {{Type_Function(ps, Some(o)) :
                        ps \in TypeSeqsOfSize(n - 1 - m), o \in TypesOfSize(m)} :
                            m \in 1..(n - 1)}
TypeSet == UNION {TypesOfSize(n) : n \in 1..MaxTypeSize}

Keywords == {s_i32, s_i64, s_u32, s_u64, s_bool, s_string}
Pieces == {<<"(">>, <<")">>, <<",", " ">>, <<":", " ">>, <<" ">>, s_i32, s_bool, <<"x">>}

RECURSIVE Concat(_)
Concat(ss) == IF ss = <<>> THEN <<>> ELSE ss[1] \o Concat(Tail(ss))

TextSet ==
    Keywords \cup UNION {{Concat(ps) : ps \in [1..n -> Pieces]} : n \in 0..MaxPieces}

(***************************************************************************)
(* The Type grammar as a state machine: a value is formatted and parsed    *)
(* in turn, and hist keeps every call with its argument and its result.    *)
(***************************************************************************)
AType(t) == [is |-> "type", ty |-> t]
AText(s) == [is |-> "text", text |-> s]
AnError(e) == [is |-> "error", err |-> e]
Idle == [is |-> "idle"]

TypeIdle == cur = Idle /\ hist = <<>>
LexIdle == src = <<>> /\ input = <<>> /\ line = 0 /\ col = 0 /\ calls = <<>>
\* the parse is not of a block: parse_program is the entry
NoBlock == [entered |-> FALSE]
ParseIdle ==
    /\ peeked = None /\ pc = "idle" /\ locals = <<>> /\ stmts = <<>>
    /\ presult = None /\ block = NoBlock /\ taken = <<>>

TypeInit ==
    /\ cur \in {AType(t) : t \in TypeSet} \cup {AText(s) : s \in TextSet}
    /\ hist = <<>>
    /\ LexIdle
    /\ ParseIdle

\* format!("{}", ty)
Format ==
    /\ cur.is = "type"
    /\ Len(hist) < MaxOps
    /\ LET text == fmt(cur.ty)
       IN  /\ cur' = AText(text)
           /\ hist' = Append(hist, [op |-> "fmt", ty |-> cur.ty, text |-> text])
    /\ UNCHANGED <<lexVars, parseVars>>

\* Type::try_from(text)
TryFrom ==
    /\ cur.is = "text"
    /\ Len(hist) < MaxOps
    /\ LET r == try_from(cur.text)
       IN  /\ cur' = IF r.ok THEN AType(r.v) ELSE AnError(r)
           /\ hist' = Append(hist, [op |-> "try_from", text |-> cur.text, res |-> r])
    /\ UNCHANGED <<lexVars, parseVars>>

TypeNext == Format \/ TryFrom
TypeSpec == TypeInit /\ [][TypeNext]_vars


(***************************************************************************)
(* The Type grammar as the specification states it, to compare the code    *)
(* with: the ')' that closes the first '(', the parameters between them    *)
(* split at the commas outside nested parentheses, the return type after   *)
(* "):".                                                                    *)
(***************************************************************************)
\* the 1-based place of the ')' that matches the '(' at s[1], 0 when none does
RECURSIVE CloseScan(_, _, _)
CloseScan(s, i, depth) ==
    IF i > Len(s) THEN 0
    ELSE IF s[i] = "(" THEN CloseScan(s, i + 1, depth + 1)
    ELSE IF s[i] = ")"
         THEN (IF depth = 1 THEN i ELSE CloseScan(s, i + 1, depth - 1))
    ELSE CloseScan(s, i + 1, depth)
MatchingParen(s) == CloseScan(s, 1, 0)

\* s split at the commas that are outside parentheses; piece is the part read so far
RECURSIVE SplitTop(_, _, _)
SplitTop(s, depth, piece) ==
    IF s = <<>> THEN <<piece>>
    ELSE IF s[1] = "," /\ depth = 0 THEN <<piece>> \o SplitTop(Tail(s), 0, <<>>)
    ELSE SplitTop(Tail(s),
                  depth + (IF s[1] = "(" THEN 1 ELSE IF s[1] = ")" THEN -1 ELSE 0),
                  Append(piece, s[1]))

\* of a text "(...)rest" whose first '(' is closed: the parameters' texts, trimmed,
\* and what follows the closing ')'
Interior(s) == SubSeq(s, 2, MatchingParen(s) - 1)
ParamTexts(s) ==
    IF Interior(s) = <<>> THEN <<>>
    ELSE LET ps == SplitTop(Interior(s), 0, <<>>) IN [i \in 1..Len(ps) |-> trim(ps[i])]
AfterParen(s) == SubSeq(s, MatchingParen(s) + 1, Len(s))
ReturnText(s) == trim(Tail(AfterParen(s)))

RECURSIVE WellFormed(_)
WellFormedFunction(s) ==
    /\ starts_with(s, "(")
    /\ MatchingParen(s) # 0
    /\ \A i \in 1..Len(ParamTexts(s)) : WellFormed(ParamTexts(s)[i])
    /\ \/ AfterParen(s) = <<>>
       \/ /\ starts_with(AfterParen(s), ":")
          /\ WellFormed(ReturnText(s))
WellFormed(s) == s \in Keywords \/ WellFormedFunction(s)

IsSubstring(a, b) ==
    \E i \in 1..(Len(b) + 1) : \E j \in (i - 1)..Len(b) : SubSeq(b, i, j) = a

Fmts == {i \in 1..Len(hist) : hist[i].op = "fmt"}
TryFroms == {i \in 1..Len(hist) : hist[i].op = "try_from"}

\* C1: every Type value that is formatted and then parsed comes back: try_from of
\* the text fmt gave succeeds with the very Type that was formatted.
C1_ParseFormatRoundTrip ==
    \A i \in Fmts :
        i + 1 <= Len(hist) => hist[i + 1].res = Ok(hist[i].ty)

\* C2: the three kinds of malformed text: a '(' that is never closed; a text, a
\* parameter or a return type that is neither a primitive keyword nor starts with
\* '('; characters after the closing ')' that are not ':' and a type.
UnmatchedParen(s) == starts_with(s, "(") /\ MatchingParen(s) = 0
UnknownWord(s) == s \notin Keywords /\ ~starts_with(s, "(")
UnknownPart(s) ==
    /\ starts_with(s, "(")
    /\ MatchingParen(s) # 0
    /\ \/ \E i \in 1..Len(ParamTexts(s)) :
            ParamTexts(s)[i] # <<>> /\ UnknownWord(ParamTexts(s)[i])
       \/ starts_with(AfterParen(s), ":") /\ UnknownWord(ReturnText(s))
TrailingGarbage(s) ==
    /\ starts_with(s, "(")
    /\ MatchingParen(s) # 0
    /\ trim(AfterParen(s)) # <<>>
    /\ ~(starts_with(AfterParen(s), ":") /\ WellFormed(ReturnText(s)))
Malformed(s) ==
    UnmatchedParen(s) \/ UnknownWord(s) \/ UnknownPart(s) \/ TrailingGarbage(s)

\* C2: try_from of a malformed text fails with InvalidType, and the text the error
\* carries is a part of the text given.
C2_MalformedFails ==
    \A i \in TryFroms :
        Malformed(hist[i].text) =>
            /\ ~hist[i].res.ok
            /\ hist[i].res.kind = "InvalidType"
            /\ IsSubstring(hist[i].res.msg, hist[i].text)

\* C3: try_from of a well-formed function-type text "(T1, ..., Tn)" or
\* "(T1, ..., Tn): R" succeeds with Function of the parameters' types in order, and
\* a return type exactly when ": R" is there; formatting the result and parsing
\* it again gives an equal Type.
C3_FunctionTextParses ==
    \A i \in TryFroms :
        WellFormedFunction(hist[i].text) =>
            LET s == hist[i].text
                ps == ParamTexts(s)
                expected ==
                    Type_Function([k \in 1..Len(ps) |-> try_from(ps[k]).v],
                                  IF AfterParen(s) = <<>> THEN None
                                  ELSE Some(try_from(ReturnText(s)).v))
            IN  /\ hist[i].res.ok
                /\ hist[i].res.v = expected
                /\ i + 2 <= Len(hist) => hist[i + 2].res = hist[i].res

\* the Type the claim names for each primitive keyword
KeywordType(s) ==
    CASE s = s_i32 -> Type_Int(32)
      [] s = s_i64 -> Type_Int(64)
      [] s = s_u32 -> Type_UInt(32)
      [] s = s_u64 -> Type_UInt(64)
      [] s = s_bool -> Type_Boolean
      [] s = s_string -> Type_String

\* C4: try_from of each of the six primitive keywords succeeds with its own Type,
\* no two keywords give the same Type, and fmt of the result is the keyword again.
C4_PrimitiveKeywords ==
    /\ \A s, t \in Keywords : s # t => try_from(s) # try_from(t)
    /\ \A i \in TryFroms :
        hist[i].text \in Keywords =>
            /\ hist[i].res = Ok(KeywordType(hist[i].text))
            /\ i + 1 <= Len(hist) => hist[i + 1].text = hist[i].text

\* C4's case: "u64" was parsed and its Type formatted
C4_Witness ==
    /\ Len(hist) >= 2
    /\ hist[1].op = "try_from" /\ hist[1].text = s_u64
    /\ hist[2].op = "fmt" /\ hist[2].ty = Type_UInt(64)


(***************************************************************************)
(* lexer/mod.rs: the Lexer.  A lexer state is [input, line, col]; every    *)
(* method that takes &mut self gives the new state back with its result.   *)
(***************************************************************************)
Lexer(i, l, c) == [input |-> i, line |-> l, col |-> c]
Token(ty, value, pos) == [ty |-> ty, value |-> value, pos |-> pos]

is_linebreak(c) == c = "\n"

\* a next_char that counts a line break as any other character
next_char_one_line(st) ==
    IF st.input = <<>> THEN [st |-> st, c |-> None]
    ELSE [st |-> Lexer(Tail(st.input), st.line, st.col + 1), c |-> Some(Head(st.input))]

next_char(st) ==
    IF st.input = <<>> THEN [st |-> st, c |-> None]
    ELSE LET c == Head(st.input)
         IN  [st |-> IF is_linebreak(c)
                     THEN Lexer(Tail(st.input), st.line + 1, 0)
                     ELSE Lexer(Tail(st.input), st.line, st.col + 1),
              c |-> Some(c)]

peek_char(st) == IF st.input = <<>> THEN None ELSE Some(Head(st.input))

RECURSIVE skip_whitespace(_)
skip_whitespace(st) ==
    IF peek_char(st) # None /\ is_whitespace(peek_char(st)[1])
    THEN skip_whitespace(next_char(st).st)
    ELSE st

get_position(st) == [line |-> st.line, col |-> st.col]

\* an identifier character test that leaves the digits out
is_identifier_char_no_digit(c) == c = "_" \/ is_ascii_alphabetic(c)
is_identifier_char(c) == c = "_" \/ is_ascii_alphabetic(c) \/ is_ascii_digit(c)

RECURSIVE read_identifier(_, _)
read_identifier(st, value) ==
    IF peek_char(st) # None /\ is_identifier_char(peek_char(st)[1])
    THEN read_identifier(next_char(st).st, Append(value, peek_char(st)[1]))
    ELSE [st |-> st, value |-> value]

\* a read_number that stops after one digit
read_number_one_digit(st, value) ==
    IF peek_char(st) # None /\ is_ascii_digit(peek_char(st)[1])
    THEN [st |-> next_char(st).st, value |-> Append(value, peek_char(st)[1])]
    ELSE [st |-> st, value |-> value]

RECURSIVE read_number(_, _)
read_number(st, value) ==
    IF peek_char(st) # None /\ is_ascii_digit(peek_char(st)[1])
    THEN read_number(next_char(st).st, Append(value, peek_char(st)[1]))
    ELSE [st |-> st, value |-> value]

reserved_lookup(id) ==
    CASE id \in {s_i32, s_i64, s_u32, s_u64, s_bool, s_string} -> Some("VarType")
      [] id = <<"t", "y", "p", "e", "d", "e", "f">> -> Some("Typedef")
      [] id = <<"f", "u", "n", "c">> -> Some("Function")
      [] id = <<"l", "e", "t">> -> Some("Let")
      [] id = <<"a", "u", "t", "o">> -> Some("Auto")
      [] id = <<"r", "e", "t", "u", "r", "n">> -> Some("Return")
      [] id = <<"i", "f">> -> Some("If")
      [] id = <<"e", "l", "s", "e">> -> Some("Else")
      [] id = <<"f", "o", "r">> -> Some("For")
      [] id = <<"w", "h", "i", "l", "e">> -> Some("While")
      [] id = <<"c", "o", "n", "t", "i", "n", "u", "e">> -> Some("Continue")
      [] id = <<"b", "r", "e", "a", "k">> -> Some("Break")
      [] id = <<"s", "w", "i", "t", "c", "h">> -> Some("Switch")
      [] id = <<"c", "a", "s", "e">> -> Some("Case")
      [] id = <<"d", "e", "f", "a", "u", "l", "t">> -> Some("Default")
      [] id = <<"t", "r", "u", "e">> -> Some("BooleanLiteral")
      [] id = <<"f", "a", "l", "s", "e">> -> Some("BooleanLiteral")
      [] OTHER -> None

\* What one arm of next_token's match gives: the lexer after it, the token's text,
\* and the token's type, None when the arm yields no token.
Arm(st, value, ty) == [st |-> st, value |-> value, ty |-> ty]

\* a lookahead that takes the two-character form without reading past its
\* second character
lookahead_unread(st, value, second, two, one) ==
    IF peek_char(st) = Some(second)
    THEN Arm(st, Append(value, second), Some(two))
    ELSE Arm(st, value, Some(one))

\* if let Some(&second) = self.peek_char() { value.push(self.next_char().unwrap());
\* Some(two) } else { Some(one) }
lookahead(st, value, second, two, one) ==
    IF peek_char(st) = Some(second)
    THEN Arm(next_char(st).st, Append(value, next_char(st).c[1]), Some(two))
    ELSE Arm(st, value, Some(one))

\* an arm that ends with a read_number or a read_identifier, r being what it read
ArmOf(r, ty) == Arm(r.st, r.value, ty)

\* the '-' arm
minus_arm(st, value) ==
    IF peek_char(st) # None
    THEN IF peek_char(st)[1] = "-"
         THEN Arm(next_char(st).st, Append(value, next_char(st).c[1]), Some("Decrement"))
         ELSE IF is_ascii_digit(peek_char(st)[1])
         THEN ArmOf(read_number(st, value), Some("IntLiteral"))
         ELSE Arm(st, value, Some("Minus"))
    ELSE Arm(st, value, Some("Minus"))

\* the '/' arm's loop: while let Some(n) = self.next_char() { if linebreak { break } },
\* r being what next_char gave
RECURSIVE skip_line(_)
skip_line_step(r) ==
    IF r.c = None THEN r.st
    ELSE IF is_linebreak(r.c[1]) THEN Lexer(r.st.input, r.st.line, 0)
    ELSE skip_line(r.st)
skip_line(st) == skip_line_step(next_char(st))

\* a '/' arm whose comment is the two slashes and no more
slash_arm_two_chars(st, value) ==
    IF peek_char(st) = Some("/")
    THEN Arm(next_char(st).st, value, Some("Comment"))
    ELSE Arm(st, value, Some("Slash"))

slash_arm(st, value) ==
    IF peek_char(st) = Some("/")
    THEN Arm(skip_line(st), value, Some("Comment"))
    ELSE Arm(st, value, Some("Slash"))

\* the '<' and '>' arms: '=' gives the comparison, the same character the shift
angle_arm(st, value, c, orEqual, shift, alone) ==
    IF peek_char(st) = Some("=")
    THEN Arm(next_char(st).st, Append(value, next_char(st).c[1]), Some(orEqual))
    ELSE IF peek_char(st) = Some(c)
    THEN Arm(next_char(st).st, Append(value, next_char(st).c[1]), Some(shift))
    ELSE Arm(st, value, Some(alone))

\* the '"' arm's loop, value being the text pushed so far and r what next_char
\* gave; a `?` on None leaves next_token with None
RECURSIVE string_arm(_, _)
\* a loop that ends at the first quotation mark, escaped or not
string_arm_step_no_escape(r, value) ==
    IF r.c = None THEN Arm(r.st, value, Some("StringLiteral"))
    ELSE IF r.c[1] = "\"" THEN Arm(r.st, value, Some("StringLiteral"))
    ELSE string_arm(r.st, Append(value, r.c[1]))
string_arm_step(r, value) ==
    IF r.c = None THEN Arm(r.st, value, Some("StringLiteral"))
    ELSE IF r.c[1] = "\\" /\ peek_char(r.st) = None THEN Arm(r.st, value, None)
    ELSE IF r.c[1] = "\\" /\ peek_char(r.st) = Some("\"")
    THEN string_arm(next_char(r.st).st, value \o <<r.c[1], next_char(r.st).c[1]>>)
    ELSE IF r.c[1] = "\"" THEN Arm(r.st, value, Some("StringLiteral"))
    ELSE string_arm(r.st, Append(value, r.c[1]))
string_arm(st, value) == string_arm_step(next_char(st), value)

\* self.reserved_lookup(value.as_str()).unwrap_or(TokenType::Identifier)
lookup_or_identifier(id) ==
    IF reserved_lookup(id) # None THEN reserved_lookup(id) ELSE Some("Identifier")

\* the `_` arm
word_arm(st, value, c) ==
    IF c = "_" \/ is_ascii_alphabetic(c)
    THEN ArmOf(read_identifier(st, value),
               lookup_or_identifier(read_identifier(st, value).value))
    ELSE IF is_ascii_digit(c)
    THEN ArmOf(read_number(st, value), Some("IntLiteral"))
    ELSE Arm(st, value, None)

\* next_token's match on the first character c, st being the lexer after it and
\* value the text that holds c
match_arm(c, st, value) ==
    CASE c = "=" -> lookahead(st, value, "=", "Eq", "Assign")
      [] c = "+" -> lookahead(st, value, "+", "Increment", "Plus")
      [] c = "-" -> minus_arm(st, value)
      [] c = "*" -> lookahead(st, value, "*", "Power", "Asterisk")
      [] c = "/" -> slash_arm(st, value)
      [] c = "%" -> Arm(st, value, Some("Percent"))
      [] c = "?" -> Arm(st, value, Some("QuestionMark"))
      [] c = "&" -> lookahead(st, value, "&", "And", "BitAnd")
      [] c = "|" -> lookahead(st, value, "|", "Or", "BitOr")
      [] c = "^" -> Arm(st, value, Some("BitXor"))
      [] c = "<" -> angle_arm(st, value, "<", "Lte", "BitLeftShift", "Lt")
      [] c = ">" -> angle_arm(st, value, ">", "Gte", "BitRightShift", "Gt")
      [] c = "!" -> lookahead(st, value, "=", "Neq", "Not")
      [] c = "," -> Arm(st, value, Some("Comma"))
      [] c = ";" -> Arm(st, value, Some("Semicolon"))
      [] c = ":" -> Arm(st, value, Some("Colon"))
      [] c = "(" -> Arm(st, value, Some("LParen"))
      [] c = ")" -> Arm(st, value, Some("RParen"))
      [] c = "{" -> Arm(st, value, Some("LBrace"))
      [] c = "}" -> Arm(st, value, Some("RBrace"))
      [] c = "[" -> Arm(st, value, Some("LBracket"))
      [] c = "]" -> Arm(st, value, Some("RBracket"))
      [] c = "\"" -> string_arm(st, <<>>)
      [] OTHER -> word_arm(st, value, c)

\* next_token's end: the `?` on the arm's type, then Some(Token::new(..))
token_of(arm, position) ==
    [st |-> arm.st,
     tok |-> IF arm.ty = None THEN None
             ELSE Some(Token(arm.ty[1], arm.value, position))]

\* next_token from `let c = self.next_char()?` on, first being what next_char gave
next_token_from(first, position) ==
    IF first.c = None THEN [st |-> first.st, tok |-> None]
    ELSE token_of(match_arm(first.c[1], first.st, <<first.c[1]>>), position)

\* a next_token that gives the token and leaves its characters unread
next_token_skipped_unread(st) ==
    [st |-> st, tok |-> next_token_from(next_char(st), get_position(st)).tok]

\* next_token after self.skip_whitespace()
next_token_skipped(st) == next_token_from(next_char(st), get_position(st))

\* Lexer::next_token: the lexer after the call and the Option<Token> returned
next_token(st) == next_token_skipped(skip_whitespace(st))

(***************************************************************************)
(* The lexer as a state machine: a client calls next_token again and again *)
(* (Iterator::next is next_token); calls keeps, for every call, the input  *)
(* before it, what it returned and the input after it.                     *)
(***************************************************************************)
LexAlphabet ==
    {"a", "1", "-", "=", "+", "*", "<", ">", "!", "&", "|", "/", "\"", "\\",
     " ", "\n", "#"}
LexExamples ==
    {<<"-", "1", "2", "3">>,
     <<"a", " ", "-", " ", "1", "2", "3">>,
     <<"a", " ", "-", "1", "2", "3">>,
     <<"\"", "a", "\\", "\"", "b", "\"", ";">>,
     <<"\"", "a", "\\", "\"", "b">>}
\* the reserved words, each alone, with a character more and before another
\* token, and some other words
ReservedWords ==
    {<<"i", "3", "2">>,
     <<"i", "6", "4">>,
     <<"u", "3", "2">>,
     <<"u", "6", "4">>,
     <<"b", "o", "o", "l">>,
     <<"s", "t", "r", "i", "n", "g">>,
     <<"t", "r", "u", "e">>,
     <<"f", "a", "l", "s", "e">>,
     <<"t", "y", "p", "e", "d", "e", "f">>,
     <<"f", "u", "n", "c">>,
     <<"l", "e", "t">>,
     <<"a", "u", "t", "o">>,
     <<"r", "e", "t", "u", "r", "n">>,
     <<"i", "f">>,
     <<"e", "l", "s", "e">>,
     <<"f", "o", "r">>,
     <<"w", "h", "i", "l", "e">>,
     <<"c", "o", "n", "t", "i", "n", "u", "e">>,
     <<"b", "r", "e", "a", "k">>,
     <<"s", "w", "i", "t", "c", "h">>,
     <<"c", "a", "s", "e">>,
     <<"d", "e", "f", "a", "u", "l", "t">>}
WordExamples ==
    ReservedWords
        \cup {w \o <<"x">> : w \in ReservedWords}
        \cup {w \o <<"1">> : w \in ReservedWords}
        \cup {w \o <<"-", "1">> : w \in ReservedWords}
        \cup {<<"_">>, <<"_", "a", "1", " ", "b", "_", "_", "2", ";">>,
              <<"L", "e", "t", " ", "l", "e", "t", "_", " ", "_", "l", "e", "t">>,
              <<"t", "r", "u", "e", "=", "f", "a", "l", "s", "e">>}
\* texts of several lines, with line comments and a string that holds a line break
LineExamples ==
    {<<"a", " ", "/", "/", "b", "\n", " ", "c">>,
     <<"/", "/", " ", "a", "\n", "\n", " ", " ", "1", " ", "\"", "x", "\n", "y", "\"", " ", "z">>,
     <<"a", "\n", "\t", "b", "\r", "\n", "=", "=">>,
     <<"/", "/", "a">>}
\* string literals: with escaped quotation marks, with a backslash before the
\* escaping one, empty, and one after the other
StringExamples ==
    {<<"\"", "\\", "\\", "\"", "a", "\"", " ", ";">>,
     <<"\"", "\\", "\"", "\\", "\"", "\"", "a">>,
     <<"\"", "\"", " ", "\"", "\"", "\"", "a", " ", "b", "\"">>,
     <<"\"", "a", "\\", "b", "\"", "\"", "c", "\"">>}
LexInputs ==
    LexExamples \cup WordExamples \cup LineExamples \cup StringExamples \cup UNION {[1..n -> LexAlphabet] : n \in 0..MaxLexLen}

\* what a call of next_token does to the lexer's fields and to the call history
Called(r) ==
    /\ input' = r.st.input
    /\ line' = r.st.line
    /\ col' = r.st.col
    /\ calls' = Append(calls, [before |-> input, ret |-> r.tok, after |-> r.st.input])

LexInit ==
    /\ src \in LexInputs
    /\ input = src
    /\ line = 0
    /\ col = 0
    /\ calls = <<>>
    /\ TypeIdle
    /\ ParseIdle

NextToken ==
    /\ pc = "idle"
    /\ Len(calls) < MaxCalls
    /\ Called(next_token(Lexer(input, line, col)))
    /\ UNCHANGED <<src, typeVars, parseVars>>

LexNext == NextToken
LexSpec == LexInit /\ [][LexNext]_vars


(***************************************************************************)
(* The lexer's claims.                                                     *)
(***************************************************************************)
\* the tokens the calls so far returned, in order
RECURSIVE TokensOf(_)
TokensOf(cs) ==
    IF cs = <<>> THEN <<>>
    ELSE (IF cs[1].ret = None THEN <<>> ELSE <<cs[1].ret[1]>>) \o TokensOf(Tail(cs))
Emitted == TokensOf(calls)
TypesOf(toks) == [i \in 1..Len(toks) |-> toks[i].ty]
ValuesOf(toks) == [i \in 1..Len(toks) |-> toks[i].value]

\* the last call returned None
LexDone == calls # <<>> /\ calls[Len(calls)].ret = None

\* what a call reads first: the input before it without its leading whitespace
Seen(i) == trim_start(calls[i].before)

\* the longest run of digits s starts with
RECURSIVE DigitRun(_)
DigitRun(s) ==
    IF s # <<>> /\ s[1] \in Digits THEN <<s[1]>> \o DigitRun(Tail(s)) ELSE <<>>

\* the call read a '-' with a digit right after it
SignCase(i) == Len(Seen(i)) >= 2 /\ Seen(i)[1] = "-" /\ Seen(i)[2] \in Digits

\* C5: a '-' with a digit right after it gives one IntLiteral whose text is the '-'
\* and the longest run of digits; a '-' followed by whitespace, by the end of the
\* input or by any other character but '-' gives Minus; "-123" is one IntLiteral
\* "-123" and "a - 123" is Identifier, Minus, IntLiteral.
C5_SignFusion ==
    /\ \A i \in 1..Len(calls) :
        LET s == Seen(i)
        IN  /\ SignCase(i) =>
                /\ calls[i].ret # None
                /\ calls[i].ret[1].ty = "IntLiteral"
                /\ calls[i].ret[1].value = <<"-">> \o DigitRun(Tail(s))
                /\ calls[i].after = SubSeq(s, 2 + Len(DigitRun(Tail(s))), Len(s))
            /\ (starts_with(s, "-") /\ (Len(s) = 1 \/ (s[2] \notin Digits /\ s[2] # "-"))) =>
                /\ calls[i].ret # None
                /\ calls[i].ret[1].ty = "Minus"
                /\ calls[i].ret[1].value = <<"-">>
                /\ calls[i].after = Tail(s)
    /\ (src = <<"-", "1", "2", "3">> /\ LexDone) =>
            /\ TypesOf(Emitted) = <<"IntLiteral">>
            /\ ValuesOf(Emitted) = <<src>>
    /\ (src = <<"a", " ", "-", " ", "1", "2", "3">> /\ LexDone) =>
            TypesOf(Emitted) = <<"Identifier", "Minus", "IntLiteral">>

\* C5's case: "a - 123" was lexed to its end, the '-' and the "123" apart
C5_Witness ==
    /\ src = <<"a", " ", "-", " ", "1", "2", "3">>
    /\ LexDone
    /\ Len(Emitted) = 3
    /\ Emitted[2].ty = "Minus"

OperatorStarts == {"=", "+", "-", "*", "<", ">", "!", "&", "|"}
TwoCharOperators ==
    {<<"=", "=">>, <<"+", "+">>, <<"-", "-">>, <<"*", "*">>, <<"<", "=">>, <<">", "=">>,
     <<"!", "=">>, <<"&", "&">>, <<"|", "|">>, <<"<", "<">>, <<">", ">">>}
TwoCharType(op) ==
    CASE op = <<"=", "=">> -> "Eq"
      [] op = <<"+", "+">> -> "Increment"
      [] op = <<"-", "-">> -> "Decrement"
      [] op = <<"*", "*">> -> "Power"
      [] op = <<"<", "=">> -> "Lte"
      [] op = <<">", "=">> -> "Gte"
      [] op = <<"!", "=">> -> "Neq"
      [] op = <<"&", "&">> -> "And"
      [] op = <<"|", "|">> -> "Or"
      [] op = <<"<", "<">> -> "BitLeftShift"
      [] op = <<">", ">">> -> "BitRightShift"
OneCharType(c) ==
    CASE c = "=" -> "Assign"
      [] c = "+" -> "Plus"
      [] c = "-" -> "Minus"
      [] c = "*" -> "Asterisk"
      [] c = "<" -> "Lt"
      [] c = ">" -> "Gt"
      [] c = "!" -> "Not"
      [] c = "&" -> "BitAnd"
      [] c = "|" -> "BitOr"

\* the call read a character that can start a two-character operator
OperatorCase(i) == Seen(i) # <<>> /\ Seen(i)[1] \in OperatorStarts

\* the call chose between the one- and the two-character token by the one
\* character that follows, and read no further
OperatorRule(i) ==
    LET s == Seen(i)
    IN  /\ calls[i].ret # None
        /\ IF Len(s) >= 2 /\ <<s[1], s[2]>> \in TwoCharOperators
           THEN /\ calls[i].ret[1].ty = TwoCharType(<<s[1], s[2]>>)
                /\ calls[i].ret[1].value = <<s[1], s[2]>>
                /\ calls[i].after = SubSeq(s, 3, Len(s))
           ELSE /\ calls[i].ret[1].ty = OneCharType(s[1])
                /\ calls[i].ret[1].value = <<s[1]>>
                /\ calls[i].after = Tail(s)

\* C6 as stated: for each of = + - * < > ! & | the next character alone decides:
\* if it completes one of the eleven two-character operators, that one token is
\* emitted with both characters and both are read; otherwise the one-character
\* token is emitted and the next character is left unread.
C6_TwoCharOperators ==
    \A i \in 1..Len(calls) : OperatorCase(i) => OperatorRule(i)

\* C6 as amended: the same, but for a '-' with a digit right after it, which gives
\* an IntLiteral and reads the digits; "===" is Eq and then Assign.
C6_TwoCharOperatorsButSign ==
    /\ \A i \in 1..Len(calls) : (OperatorCase(i) /\ ~SignCase(i)) => OperatorRule(i)
    /\ (src = <<"=", "=", "=">> /\ LexDone) => TypesOf(Emitted) = <<"Eq", "Assign">>

\* C6's case: "===" was lexed to its end
C6_Witness ==
    /\ src = <<"=", "=", "=">>
    /\ LexDone
    /\ ValuesOf(Emitted) = << <<"=", "=">>, <<"=">> >>

\* s, the text after an opening quote, holds the quote that closes it: a '"' that
\* is not the second character of a backslash-quote pair
RECURSIVE Terminated(_)
Terminated(s) ==
    IF s = <<>> THEN FALSE
    ELSE IF Len(s) >= 2 /\ s[1] = "\\" /\ s[2] = "\"" THEN Terminated(SubSeq(s, 3, Len(s)))
    ELSE IF s[1] = "\"" THEN TRUE
    ELSE Terminated(Tail(s))

\* C7: a call that reads an opening quote which nothing closes before the input
\* ends returns no token: no StringLiteral is emitted for the unterminated text.
C7_UnterminatedStringFaults ==
    \A i \in 1..Len(calls) :
        (starts_with(Seen(i), "\"") /\ ~Terminated(Tail(Seen(i)))) => calls[i].ret = None

\* C8: once a call of next_token has returned None, every later call on the same
\* lexer returns None.
C8_NoneIsFinal ==
    [][LexDone => calls'[Len(calls')].ret = None]_vars


\* the longest run of letters, digits and '_' that s starts with
RECURSIVE WordRun(_)
WordRun(s) ==
    IF s # <<>> /\ (s[1] = "_" \/ s[1] \in Letters \/ s[1] \in Digits)
    THEN <<s[1]>> \o WordRun(Tail(s))
    ELSE <<>>

\* the call read a '_' or a letter first
WordCase(i) == Seen(i) # <<>> /\ (Seen(i)[1] = "_" \/ Seen(i)[1] \in Letters)

\* the fourteen language keywords, each with its token type
LanguageKeywords ==
    {<<<<"t", "y", "p", "e", "d", "e", "f">>, "Typedef">>,
     <<<<"f", "u", "n", "c">>, "Function">>,
     <<<<"l", "e", "t">>, "Let">>,
     <<<<"a", "u", "t", "o">>, "Auto">>,
     <<<<"r", "e", "t", "u", "r", "n">>, "Return">>,
     <<<<"i", "f">>, "If">>,
     <<<<"e", "l", "s", "e">>, "Else">>,
     <<<<"f", "o", "r">>, "For">>,
     <<<<"w", "h", "i", "l", "e">>, "While">>,
     <<<<"c", "o", "n", "t", "i", "n", "u", "e">>, "Continue">>,
     <<<<"b", "r", "e", "a", "k">>, "Break">>,
     <<<<"s", "w", "i", "t", "c", "h">>, "Switch">>,
     <<<<"c", "a", "s", "e">>, "Case">>,
     <<<<"d", "e", "f", "a", "u", "l", "t">>, "Default">>}
BooleanWords == {<<"t", "r", "u", "e">>, <<"f", "a", "l", "s", "e">>}
WordType(w) ==
    IF w \in Keywords THEN "VarType"
    ELSE IF w \in BooleanWords THEN "BooleanLiteral"
    ELSE IF \E k \in LanguageKeywords : k[1] = w
    THEN (CHOOSE k \in LanguageKeywords : k[1] = w)[2]
    ELSE "Identifier"

\* C18: a word that starts with '_' or a letter is lexed as the longest run of
\* letters, digits and '_', and its type is found by the whole run: VarType for
\* the six type names, its own type for each of the fourteen keywords,
\* BooleanLiteral for true and false, Identifier for every other run, a reserved
\* word with a character more ("letx", "i32x") among them.
C18_WordsByExactMatch ==
    /\ Cardinality(LanguageKeywords) = 14
    /\ Cardinality({k[2] : k \in LanguageKeywords}) = 14
    /\ \A i \in 1..Len(calls) :
        WordCase(i) =>
            /\ calls[i].ret # None
            /\ calls[i].ret[1].value = WordRun(Seen(i))
            /\ calls[i].ret[1].ty = WordType(WordRun(Seen(i)))
            /\ calls[i].after = SubSeq(Seen(i), Len(WordRun(Seen(i))) + 1, Len(Seen(i)))
    /\ \A w \in ReservedWords :
        (src = w \o <<"x">> /\ LexDone) => TypesOf(Emitted) = <<"Identifier">>

\* C18's case: "i32x" was lexed to its end, as one Identifier
C18_Witness ==
    /\ src = <<"i", "3", "2", "x">>
    /\ LexDone
    /\ Len(Emitted) = 1
    /\ Emitted[1].ty = "Identifier"
    /\ Emitted[1].value = src

\* the position after the text s is read: the line breaks in s, and the
\* characters of s after the last of them
RECURSIVE LineBreaks(_)
LineBreaks(s) ==
    IF s = <<>> THEN 0 ELSE (IF s[1] = "\n" THEN 1 ELSE 0) + LineBreaks(Tail(s))
RECURSIVE SinceLineBreak(_)
SinceLineBreak(s) ==
    IF s = <<>> \/ s[Len(s)] = "\n" THEN 0
    ELSE 1 + SinceLineBreak(SubSeq(s, 1, Len(s) - 1))
PositionAfter(s) == [line |-> LineBreaks(s), col |-> SinceLineBreak(s)]

\* the text read so far, and the text before the first character of what the
\* i-th call read after the whitespace
Consumed == SubSeq(src, 1, Len(src) - Len(input))
BeforeToken(i) == SubSeq(src, 1, Len(src) - Len(Seen(i)))

\* C19: in every state of the lexer line is the number of line breaks read so far
\* and col the number of characters read since the last of them, and every token
\* has the line and col of its first character, the one after the whitespace
\* skipped; so it is for the tokens after a line comment.
C19_Positions ==
    /\ [line |-> line, col |-> col] = PositionAfter(Consumed)
    /\ \A i \in 1..Len(calls) :
        calls[i].ret # None => calls[i].ret[1].pos = PositionAfter(BeforeToken(i))
    /\ (src = <<"a", " ", "/", "/", "b", "\n", " ", "c">> /\ LexDone) =>
            /\ TypesOf(Emitted) = <<"Identifier", "Comment", "Identifier">>
            /\ Emitted[3].pos = [line |-> 1, col |-> 1]

\* C19's case: "a //b" and " c" on two lines were lexed to the end, the c after
\* the comment at line 1, col 1
C19_Witness ==
    /\ src = <<"a", " ", "/", "/", "b", "\n", " ", "c">>
    /\ LexDone
    /\ Len(Emitted) = 3
    /\ Emitted[2].ty = "Comment"
    /\ Emitted[3].pos = [line |-> 1, col |-> 1]

\* the places in s, the text after an opening quote, of the quotation marks that
\* are not the second character of a backslash-quote pair
ClosingQuotes(s) ==
    {k \in 1..Len(s) : s[k] = "\"" /\ (k = 1 \/ s[k - 1] # "\\")}
FirstClosingQuote(s) ==
    CHOOSE k \in ClosingQuotes(s) : \A j \in ClosingQuotes(s) : k <= j

\* the call read an opening quote that is closed
StringCase(i) == starts_with(Seen(i), "\"") /\ ClosingQuotes(Tail(Seen(i))) # {}

RECURSIVE AfterLine(_)
AfterLine(s) ==
    IF s = <<>> THEN <<>>
    ELSE IF s[1] = "\n" THEN Tail(s)
    ELSE AfterLine(Tail(s))

\* the call read a '/' first
SlashCase(i) == starts_with(Seen(i), "/")

\* C21: a '/' with a '/' right after it makes next_token read every character up
\* to and with the next line break, or to the end of the input when there is
\* none, and return one Comment token for the line, which the caller gets as any
\* other token; a '/' with no '/' after it gives Slash and reads nothing more.
C21_LineComment ==
    \A i \in 1..Len(calls) :
        SlashCase(i) =>
            /\ calls[i].ret # None
            /\ IF Len(Seen(i)) >= 2 /\ Seen(i)[2] = "/"
               THEN /\ calls[i].ret[1].ty = "Comment"
                    /\ calls[i].after = AfterLine(Seen(i))
               ELSE /\ calls[i].ret[1].ty = "Slash"
                    /\ calls[i].ret[1].value = <<"/">>
                    /\ calls[i].after = Tail(Seen(i))

\* C21's case: "// a", an empty line and a line of three tokens were lexed to the
\* end: one Comment for the first line, the rest after it
C21_Witness ==
    /\ src = <<"/", "/", " ", "a", "\n", "\n", " ", " ", "1", " ", "\"", "x", "\n", "y", "\"", " ", "z">>
    /\ LexDone
    /\ TypesOf(Emitted) = <<"Comment", "IntLiteral", "StringLiteral", "Identifier">>
    /\ calls[1].after = SubSeq(src, 6, Len(src))

(***************************************************************************)
(* ast/node.rs and ast/mod.rs: the tree the parser builds.                 *)
(***************************************************************************)
Position_default == [line |-> 0, col |-> 0]
Node_from(value) == [start |-> Position_default, end |-> Position_default, value |-> value]
set_start(node, start) == [node EXCEPT !.start = start]
set_end(node, end) == [node EXCEPT !.end = end]

Variable_new(id, ty) == [id |-> id, ty |-> ty]
Declaration(v) == [tag |-> "Declaration", var |-> v]
Program(statements) == statements

\* the statements and expressions of ast/mod.rs that the claims about conditionals
\* and expressions name
BlockStatement(statements) == statements
Statement_Condition(condition, consequence, alternative) ==
    [tag |-> "Condition", condition |-> condition, consequence |-> consequence,
     alternative |-> alternative]
Statement_Definition(ty, var, expr) ==
    [tag |-> "Definition", ty |-> ty, var |-> var, expr |-> expr]
Statement_Return(expr) == [tag |-> "Return", expr |-> expr]
Expression_Identifier(id) == [tag |-> "Identifier", id |-> id]
Expression_Literal(lit) == [tag |-> "Literal", lit |-> lit]
Expression_Add(l, r) == [tag |-> "Add", l |-> l, r |-> r]
Expression_Mul(l, r) == [tag |-> "Mul", l |-> l, r |-> r]
Expression_Pow(l, r) == [tag |-> "Pow", l |-> l, r |-> r]
Expression_Ternary(c, t, e) == [tag |-> "Ternary", c |-> c, t |-> t, e |-> e]

\* PartialEq.  Variable and Statement derive it, which compares the fields in
\* turn; a Node's compares the values and leaves start and end out; a Vec's
\* compares the lengths and the elements in turn.  Of the statements only the
\* Declaration is compared here, the one statement the parser builds.
Variable_eq(a, b) == a.id = b.id /\ a.ty = b.ty
VariableNode_eq(a, b) == Variable_eq(a.value, b.value)
Statement_eq(a, b) ==
    /\ a.tag = b.tag
    /\ a.tag = "Declaration" => VariableNode_eq(a.var, b.var)
\* a Node equality that compares the positions too
StatementNode_eq_with_positions(a, b) ==
    a.start = b.start /\ a.end = b.end /\ Statement_eq(a.value, b.value)
StatementNode_eq(a, b) == Statement_eq(a.value, b.value)
Statements_eq(a, b) ==
    Len(a) = Len(b) /\ \A i \in 1..Len(a) : StatementNode_eq(a[i], b[i])

\* Option::unwrap on a None
Panicked == [is |-> "panic"]
AFunction(f) == [is |-> "function", function |-> f]
AnArgs(a) == [is |-> "args", args |-> a]

\* a signature that leaves the output out
FunctionSignature_no_output(inputs, output) == [inputs |-> inputs, output |-> None]
FunctionSignature(inputs, output) == [inputs |-> inputs, output |-> output]

\* Function::new: the signature's inputs are the parameters' types, each taken
\* with unwrap(), which panics on a parameter whose ty is None
Function_new(id, parameters, statements, return_type) ==
    IF \E i \in 1..Len(parameters) : parameters[i].value.ty = None
    THEN Panicked
    ELSE AFunction([id |-> id, parameters |-> parameters, statements |-> statements,
                    return_type |-> return_type,
                    signature |-> FunctionSignature(
                        [i \in 1..Len(parameters) |-> parameters[i].value.ty[1]],
                        return_type)])

(***************************************************************************)
(* Function::new as a state machine: it is called once with an identifier, *)
(* a bounded list of parameters, no statements and a return type; hist     *)
(* keeps the call with its arguments and its outcome.                      *)
(***************************************************************************)
ParameterNodes ==
    {Node_from(Variable_new(id, ty)) :
        id \in {<<"a">>, <<"b">>},
        ty \in {None, Some(Type_Int(32)), Some(Type_Boolean)}}
ParameterLists == UNION {[1..n -> ParameterNodes] : n \in 0..MaxParams}
ReturnTypes == {None, Some(Type_Int(32))}

AstInit ==
    /\ cur \in {AnArgs([id |-> <<"f">>, parameters |-> ps, statements |-> <<>>,
                        return_type |-> rt]) :
                    ps \in ParameterLists, rt \in ReturnTypes}
    /\ hist = <<>>
    /\ src = <<>> /\ input = <<>> /\ line = 0 /\ col = 0 /\ calls = <<>>
    /\ peeked = <<>> /\ pc = "idle" /\ locals = <<>> /\ stmts = <<>> /\ presult = <<>>
    /\ block = NoBlock /\ taken = <<>>

FunctionNew ==
    /\ cur.is = "args"
    /\ cur' = Function_new(cur.args.id, cur.args.parameters, cur.args.statements,
                           cur.args.return_type)
    /\ hist' = Append(hist, [op |-> "Function::new", args |-> cur.args, out |-> cur'])
    /\ UNCHANGED <<src, input, line, col, calls, peeked, pc, locals, stmts, presult,
                   block, taken>>

AstNext == FunctionNew
AstSpec == AstInit /\ [][AstNext]_vars

\* some parameter of the list has no resolved type
HasUntyped(parameters) == \E i \in 1..Len(parameters) : parameters[i].value.ty = None
News == {i \in 1..Len(hist) : hist[i].op = "Function::new"}

\* C26: when every parameter has a resolved type Function::new returns a Function
\* whose signature's inputs are the parameters' types in the parameters' order,
\* as many as the parameters, and whose signature's output is the return type
\* given, none when none is given; id, parameters, statements and return_type
\* are those given.
C26_SignatureFromParameters ==
    \A i \in News :
        ~HasUntyped(hist[i].args.parameters) =>
            /\ hist[i].out.is = "function"
            /\ Len(hist[i].out.function.signature.inputs) = Len(hist[i].args.parameters)
            /\ \A j \in 1..Len(hist[i].args.parameters) :
                    Some(hist[i].out.function.signature.inputs[j]) =
                        hist[i].args.parameters[j].value.ty
            /\ hist[i].out.function.signature.output = hist[i].args.return_type
            /\ hist[i].out.function.id = hist[i].args.id
            /\ hist[i].out.function.parameters = hist[i].args.parameters
            /\ hist[i].out.function.statements = hist[i].args.statements
            /\ hist[i].out.function.return_type = hist[i].args.return_type

\* C26's case: Function::new was called with an i32 and a bool parameter and the
\* return type i32
C26_Witness ==
    /\ hist # <<>>
    /\ hist[1].op = "Function::new"
    /\ hist[1].out.is = "function"
    /\ hist[1].out.function.signature.inputs = <<Type_Int(32), Type_Boolean>>
    /\ hist[1].out.function.signature.output = Some(Type_Int(32))

\* C15: Function::new called with a parameter list in which some parameter has no
\* resolved type gives a recoverable error value back; it does not panic.
C15_UntypedParameterIsAnError ==
    \A i \in News :
        HasUntyped(hist[i].args.parameters) => hist[i].out.is = "error"

(***************************************************************************)
(* parser/mod.rs: ParserError and the Parser's token primitives.  The      *)
(* Parser's one field is a Peekable over the lexer: a Peekable state is    *)
(* [lx, peeked], and every primitive gives back the new state, its result  *)
(* and the next_token calls it made.                                       *)
(***************************************************************************)
ParserError_new(kind, message) ==
    [ok |-> FALSE, kind |-> kind, message |-> message, position |-> None]
set_position(error, position) == [error EXCEPT !.position = Some(position)]

eof_as_unexpected_token ==
    ParserError_new("UnexpectedToken", <<"Unexpected end of file (EOF)">>)
eof == ParserError_new("UnexpectedEOF", <<"Unexpected end of file (EOF)">>)

Peekable(lx, slot) == [lx |-> lx, peeked |-> slot]

\* what a use of the Peekable gives: the Peekable after it, the item, and the
\* calls of next_token it made
Held(p, slot) == [p |-> Peekable(p.lx, slot), item |-> p.peeked[1], made |-> <<>>]
Taken(p, r, slot) ==
    [p |-> Peekable(r.st, slot), item |-> r.tok,
     made |-> <<[before |-> p.lx.input, ret |-> r.tok, after |-> r.st.input]>>]

\* a peek that takes the token from the lexer and does not keep it
Peekable_peek_dropping(p) ==
    IF p.peeked # None THEN Held(p, p.peeked)
    ELSE Taken(p, next_token(p.lx), None)

\* Peekable::peek: fills the slot from the lexer when it is empty
Peekable_peek(p) ==
    IF p.peeked # None THEN Held(p, p.peeked)
    ELSE Taken(p, next_token(p.lx), Some(next_token(p.lx).tok))

\* Peekable::next: takes the slot when it is full, the lexer's next token otherwise
Peekable_next(p) ==
    IF p.peeked # None THEN Held(p, None)
    ELSE Taken(p, next_token(p.lx), None)

\* a primitive's result res after the use n of the Peekable, took being the
\* token the use took out of the stream: none after a peek, the item after a next
After(n, res) == [p |-> n.p, made |-> n.made, res |-> res, took |-> <<>>]
AfterNext(n, res) == [p |-> n.p, made |-> n.made, res |-> res, took |-> n.item]

consume_unchecked_item(n) == AfterNext(n, IF n.item = None THEN eof ELSE Ok(n.item[1]))
consume_unchecked(p) == consume_unchecked_item(Peekable_next(p))

consume_item(n, expected_type) ==
    AfterNext(n, IF n.item = None THEN eof
                 ELSE IF n.item[1].ty = expected_type THEN Ok(n.item[1])
                 ELSE set_position(
                    ParserError_new("UnexpectedToken",
                        <<"Expected token ", expected_type, ", but got ", n.item[1].ty>>),
                    n.item[1].pos))
consume(p, expected_type) == consume_item(Peekable_next(p), expected_type)

peek_unchecked_item(n) == After(n, n.item)
peek_unchecked(p) == peek_unchecked_item(Peekable_peek(p))

peek_next_item(n, expected_type) ==
    After(n, IF n.item = None THEN None
             ELSE IF n.item[1].ty = expected_type THEN Some(n.item[1])
             ELSE None)
peek_next(p, expected_type) == peek_next_item(Peekable_peek(p), expected_type)

\* a peek that takes any token for the expected one
peek_any_item(n, expected_type) == After(n, n.item # None)
peek_item(n, expected_type) ==
    After(n, IF n.item # None THEN n.item[1].ty = expected_type ELSE FALSE)
peek(p, expected_type) == peek_item(Peekable_peek(p), expected_type)

(***************************************************************************)
(* parse_program as a state machine.  One step is one use of the token     *)
(* stream (a peek or a consume) with the code that follows it up to the    *)
(* next one; pc names the use that comes next.  A `?` on an error ends     *)
(* parse_program with that error (pc = "returned"); unimplemented!() ends  *)
(* it with a panic (pc = "panicked").                                      *)
(***************************************************************************)
ThePeekable == Peekable(Lexer(input, line, col), peeked)

\* the token stream after a primitive, and the calls of next_token it made
Stream(r) ==
    /\ input' = r.p.lx.input
    /\ line' = r.p.lx.line
    /\ col' = r.p.lx.col
    /\ peeked' = r.p.peeked
    /\ calls' = calls \o r.made
    /\ taken' = taken \o r.took

\* parse_program returns r
Return(r) == pc' = "returned" /\ presult' = Some(r) /\ UNCHANGED <<locals, stmts>>
\* consume_expression: unimplemented!()
Panic == pc' = "panicked" /\ UNCHANGED <<presult, locals, stmts>>
Goto(label) == pc' = label /\ UNCHANGED <<presult, stmts>>

\* Each step is written as the primitive's result r handed to what the code does
\* with it.

\* consume_statement: if self.peek_unchecked().is_none() { return Ok(None) }, on
\* which parse_program's loop ends with Ok(Program(statements)) and
\* consume_block's loop breaks
statement_peeked(r) ==
    /\ Stream(r)
    /\ IF r.res = None
       THEN IF block.entered
            THEN Goto("block_close") /\ locals' = <<>>
            ELSE Return(Ok(Program(stmts)))
       ELSE Goto("first") /\ locals' = <<>>
PeekStatement ==
    /\ pc = "statement"
    /\ statement_peeked(peek_unchecked(ThePeekable))
    /\ UNCHANGED <<src, typeVars, block>>

\* consume_statement: let token = self.consume_unchecked()?; match token.ty
first_consumed(r) ==
    /\ Stream(r)
    /\ IF ~r.res.ok THEN Return(r.res)
       ELSE CASE r.res.v.ty = "Let" ->
                    Goto("let_identifier") /\ locals' = [start |-> r.res.v.pos]
              [] r.res.v.ty = "Auto" ->
                    Goto("auto_identifier") /\ locals' = [start |-> r.res.v.pos]
              [] r.res.v.ty \in {"Return", "If"} -> Panic
              [] OTHER -> Return(eof)
ConsumeFirst ==
    /\ pc = "first"
    /\ first_consumed(consume_unchecked(ThePeekable))
    /\ UNCHANGED <<src, typeVars, block>>

\* let identifier = self.consume(TokenType::Identifier)?, in
\* consume_variable_definition and in the Auto arm
identifier_consumed(r, next) ==
    /\ Stream(r)
    /\ IF ~r.res.ok THEN Return(r.res)
       ELSE /\ Goto(next)
            /\ locals' = [start |-> locals.start, identifier |-> r.res.v]
ConsumeLetIdentifier ==
    /\ pc = "let_identifier"
    /\ identifier_consumed(consume(ThePeekable, "Identifier"), "let_colon")
    /\ UNCHANGED <<src, typeVars, block>>

\* a consume of the colon whose error is dropped, the parse going on
colon_consumed_unchecked(r) ==
    /\ Stream(r)
    /\ Goto("let_type") /\ UNCHANGED locals

\* consume_variable_definition: self.consume(TokenType::Colon)?
colon_consumed(r) ==
    /\ Stream(r)
    /\ IF ~r.res.ok THEN Return(r.res)
       ELSE Goto("let_type") /\ UNCHANGED locals
ConsumeLetColon ==
    /\ pc = "let_colon"
    /\ colon_consumed(consume(ThePeekable, "Colon"))
    /\ UNCHANGED <<src, typeVars, block>>

\* consume_variable_definition: type_token.value.try_into(), its error mapped to
\* InvalidType at the token's position, and the VariableNode returned
variable_definition(type_token, var_type) ==
    IF ~var_type.ok
    THEN Return(set_position(ParserError_new("InvalidType", var_type.msg), type_token.pos))
    ELSE /\ Goto("let_assign")
         /\ locals' = [start |-> locals.start,
                       var |-> Node_from(Variable_new(locals.identifier.value,
                                                      Some(var_type.v)))]

\* consume_variable_definition: let type_token = self.consume(TokenType::VarType)?
type_consumed(r) ==
    /\ Stream(r)
    /\ IF ~r.res.ok THEN Return(r.res)
       ELSE variable_definition(r.res.v, try_from(r.res.v.value))
ConsumeLetType ==
    /\ pc = "let_type"
    /\ type_consumed(consume(ThePeekable, "VarType"))
    /\ UNCHANGED <<src, typeVars, block>>

\* consume_statement, the Let arm: if self.peek(TokenType::Assign)
assign_peeked(r) ==
    /\ Stream(r)
    /\ Goto(IF r.res THEN "let_initializer" ELSE "let_semicolon")
    /\ UNCHANGED locals
PeekLetAssign ==
    /\ pc = "let_assign"
    /\ assign_peeked(peek(ThePeekable, "Assign"))
    /\ UNCHANGED <<src, typeVars, block>>

\* self.consume(TokenType::Assign)? and then self.consume_expression(), in the
\* Let arm and in the Auto arm
assign_consumed(r) ==
    /\ Stream(r)
    /\ IF ~r.res.ok THEN Return(r.res) ELSE Panic
ConsumeLetInitializer ==
    /\ pc = "let_initializer"
    /\ assign_consumed(consume(ThePeekable, "Assign"))
    /\ UNCHANGED <<src, typeVars, block>>

\* consume_statement, the Let arm: the Declaration's semicolon; the statement
\* goes to parse_program, which pushes it and calls consume_statement again, or
\* to consume_block, which pushes it and looks for the '}' again
semicolon_consumed(r) ==
    /\ Stream(r)
    /\ IF ~r.res.ok THEN Return(r.res)
       ELSE /\ pc' = IF block.entered THEN "block_peek" ELSE "statement"
            /\ stmts' = Append(stmts,
                   set_end(set_start(Node_from(Declaration(locals.var)), locals.start),
                           r.res.v.pos))
            /\ locals' = <<>>
            /\ UNCHANGED presult
ConsumeLetSemicolon ==
    /\ pc = "let_semicolon"
    /\ semicolon_consumed(consume(ThePeekable, "Semicolon"))
    /\ UNCHANGED <<src, typeVars, block>>

ConsumeAutoIdentifier ==
    /\ pc = "auto_identifier"
    /\ identifier_consumed(consume(ThePeekable, "Identifier"), "auto_assign")
    /\ UNCHANGED <<src, typeVars, block>>

ConsumeAutoAssign ==
    /\ pc = "auto_assign"
    /\ assign_consumed(consume(ThePeekable, "Assign"))
    /\ UNCHANGED <<src, typeVars, block>>

(***************************************************************************)
(* consume_block as a state machine of its own: parse_program reaches it   *)
(* only through the If arm, past consume_expression.  block holds the '{'  *)
(* token once it is consumed, stmts the block's statements vector, and     *)
(* presult what consume_block returned.                                    *)
(***************************************************************************)
InBlock(left_brace) == [entered |-> TRUE, left_brace |-> left_brace]

\* a block node that keeps the default positions
block_node_unspanned(left_brace, right_brace, statements) ==
    Node_from(BlockStatement(statements))
\* BlockStatementNode::from(block).set_start(left_brace.position)
\*     .set_end(right_brace.position)
block_node(left_brace, right_brace, statements) ==
    set_end(set_start(Node_from(BlockStatement(statements)), left_brace.pos),
            right_brace.pos)

\* consume_block: let left_brace = self.consume(TokenType::LBrace)?
left_brace_consumed(r) ==
    /\ Stream(r)
    /\ IF ~r.res.ok THEN Return(r.res) /\ UNCHANGED block
       ELSE Goto("block_peek") /\ UNCHANGED locals /\ block' = InBlock(Some(r.res.v))
ConsumeLBrace ==
    /\ pc = "block_open"
    /\ left_brace_consumed(consume(ThePeekable, "LBrace"))
    /\ UNCHANGED <<src, typeVars>>

\* consume_block: while !self.peek(TokenType::RBrace) { match
\* self.consume_statement()? .. }
right_brace_peeked(r) ==
    /\ Stream(r)
    /\ Goto(IF r.res THEN "block_close" ELSE "statement")
    /\ UNCHANGED locals
PeekRBrace ==
    /\ pc = "block_peek"
    /\ right_brace_peeked(peek(ThePeekable, "RBrace"))
    /\ UNCHANGED <<src, typeVars, block>>

\* consume_block: let right_brace = self.consume(TokenType::RBrace)?, and the
\* block node returned
right_brace_consumed(r) ==
    /\ Stream(r)
    /\ IF ~r.res.ok THEN Return(r.res)
       ELSE Return(Ok(block_node(block.left_brace[1], r.res.v, stmts)))
ConsumeRBrace ==
    /\ pc = "block_close"
    /\ right_brace_consumed(consume(ThePeekable, "RBrace"))
    /\ UNCHANGED <<src, typeVars, block>>

(***************************************************************************)
(* The programs given to the parser: the lexemes of the let and auto       *)
(* statements in every order, and the specification's let declaration      *)
(* with every cut of it.                                                   *)
(***************************************************************************)
s_let == <<"l", "e", "t">>
s_auto == <<"a", "u", "t", "o">>
ParseLexemes == {s_let, s_auto, <<"a">>, <<":">>, s_i32, <<";">>, <<"=">>}
LexemePrograms ==
    UNION {{join(ls, <<" ">>) : ls \in [1..n -> ParseLexemes]} : n \in 0..MaxToks}

ExampleIdents == {<<"a">>, <<"_", "b", "1">>, <<"l", "e", "t", "x">>}
LetDeclText(id, p) == s_let \o <<" ">> \o id \o <<":", " ">> \o p \o <<";">>
Prefixes(s) == {SubSeq(s, 1, n) : n \in 0..Len(s)}
ExamplePrograms ==
    UNION {Prefixes(LetDeclText(id, p)) : id \in ExampleIdents, p \in Keywords}
        \cup Prefixes(LetDeclText(<<"a">>, s_i32) \o <<" ">> \o LetDeclText(<<"b">>, s_bool))
        \cup {<<"r", "e", "t", "u", "r", "n", " ", "a", ";">>,
              <<"i", "f", " ", "a", " ", "{", " ", "}">>,
              <<"l", "e", "t", " ", "a", " ", "#">>}
\* let declarations whose type annotation is a word that is not a type keyword
UnknownTypeWords == {<<"f", "o", "o">>, <<"i", "3", "2", "x">>, <<"u", "8">>}
UnknownTypePrograms == {LetDeclText(<<"a">>, w) : w \in UnknownTypeWords}

\* the conditional with and without an alternative
IfText == <<"i", "f", " ", "a", " ", "{", " ", "}">>
IfElseText == IfText \o <<" ", "e", "l", "s", "e", " ", "{", " ", "}">>

\* return statements over the expressions whose trees the specification gives
s_return == <<"r", "e", "t", "u", "r", "n">>
ReturnStatementText(e) == s_return \o <<" ">> \o e \o <<";">>
AddMulText == <<"1", " ", "+", " ", "2", " ", "*", " ", "3">>
PowPowText == <<"2", " ", "*", "*", " ", "3", " ", "*", "*", " ", "2">>
TernaryText ==
    <<"a", " ", "?", " ", "b", " ", ":", " ", "c", " ", "?", " ", "d", " ", ":", " ", "e">>
ExpressionPrograms == {ReturnStatementText(e) : e \in {AddMulText, PowPowText, TernaryText}}

\* the let declaration "let a: i32;" with its tokens laid out in other ways
LayoutPrograms ==
    {<<"l", "e", "t", " ", "a", ":", "i", "3", "2", ";">>,
     <<" ", " ", "l", "e", "t", " ", " ", "a", " ", ":", " ", "i", "3", "2", " ", ";", " ">>,
     <<"\n", "l", "e", "t", "\n", "a", "\n", ":", "\n", "i", "3", "2", "\n", ";", "\n">>,
     <<"l", "e", "t", "\t", "a", ":", "\t", "i", "3", "2", ";">>}

\* the definitions "let a: i32 = 1;" and "auto a = 1;", whole and without the ';'
LetDefinitionText ==
    s_let \o <<" ", "a", ":", " ">> \o s_i32 \o <<" ", "=", " ", "1", ";">>
AutoDefinitionText == s_auto \o <<" ", "a", " ", "=", " ", "1", ";">>
DefinitionPrograms ==
    {LetDefinitionText, AutoDefinitionText,
     AllButLast(LetDefinitionText), AllButLast(AutoDefinitionText),
     AllButLast(LetDefinitionText) \o <<" ", "a">>,
     AllButLast(AutoDefinitionText) \o <<" ", "a">>}

\* a fault in the second statement, with tokens left after it
FaultPrograms ==
    {LetDeclText(<<"a">>, s_i32) \o <<" ">> \o s_let \o <<" ", ":", " ">> \o s_bool \o <<";">>,
     LetDeclText(<<"a">>, s_i32) \o <<" ", "a", ";">>}

ParseInputs ==
    LexemePrograms \cup ExamplePrograms \cup UnknownTypePrograms
        \cup {IfText, IfElseText} \cup ExpressionPrograms \cup LayoutPrograms
        \cup FaultPrograms \cup DefinitionPrograms

ParseInit ==
    /\ src \in ParseInputs
    /\ input = src
    /\ line = 0
    /\ col = 0
    /\ calls = <<>>
    /\ peeked = None
    /\ pc = "statement"
    /\ locals = <<>>
    /\ stmts = <<>>
    /\ presult = None
    /\ block = NoBlock
    /\ taken = <<>>
    /\ TypeIdle

ParseNext ==
    \/ PeekStatement
    \/ ConsumeFirst
    \/ ConsumeLetIdentifier
    \/ ConsumeLetColon
    \/ ConsumeLetType
    \/ PeekLetAssign
    \/ ConsumeLetInitializer
    \/ ConsumeLetSemicolon
    \/ ConsumeAutoIdentifier
    \/ ConsumeAutoAssign
ParseSpec == ParseInit /\ [][ParseNext]_vars

\* The texts given to consume_block: lexemes of blocks in every order, and the
\* programs above after a '{', with and without a '}' at their end.
BlockLexemes == ParseLexemes \cup {<<"{">>, <<"}">>}
BlockLexemePrograms ==
    UNION {{join(ls, <<" ">>) : ls \in [1..n -> BlockLexemes]} : n \in 0..MaxBlockToks}
BlockBodies ==
    ExamplePrograms \cup UnknownTypePrograms \cup FaultPrograms \cup DefinitionPrograms
        \cup LayoutPrograms \cup {IfText}
BlockInputs ==
    BlockLexemePrograms
        \cup {<<"{", " ">> \o b : b \in BlockBodies}
        \cup {<<"{", " ">> \o b \o <<" ", "}">> : b \in BlockBodies}
        \cup {<<"\n", " ", "{", "\n", "}", " ", "a">>}

BlockInit ==
    /\ src \in BlockInputs
    /\ input = src
    /\ line = 0
    /\ col = 0
    /\ calls = <<>>
    /\ peeked = None
    /\ pc = "block_open"
    /\ locals = <<>>
    /\ stmts = <<>>
    /\ presult = None
    /\ block = InBlock(None)
    /\ taken = <<>>
    /\ TypeIdle

BlockNext ==
    \/ ConsumeLBrace
    \/ PeekRBrace
    \/ ConsumeRBrace
    \/ ParseNext
BlockSpec == BlockInit /\ [][BlockNext]_vars

\* The lexer driven by hand or by parse_program, each step of which is taken
\* once it can be: the code of parse_program runs on to its return.
FrontInit == LexInit \/ ParseInit
FrontNext == LexNext \/ ParseNext
\* parse_program is at a place of its code, where its next step can be taken
ParseRunning == pc \notin {"idle", "returned", "panicked"}
\* WF_vars(ParseNext), with ENABLED <<ParseNext>>_vars written out: a step of
\* ParseNext can be taken exactly when parse_program is running
ParseFairness == []<>(~ParseRunning) \/ []<><<ParseNext>>_vars
FrontSpec == FrontInit /\ [][FrontNext]_vars /\ ParseFairness

\* the whole front end: the Type grammar, a lexer driven by hand, or a parse
Init == TypeInit \/ LexInit \/ ParseInit \/ AstInit \/ BlockInit
Next == TypeNext \/ LexNext \/ BlockNext \/ AstNext
Spec == Init /\ [][Next]_vars


(***************************************************************************)
(* The parser's claims.                                                    *)
(***************************************************************************)
\* parse_program is over: it returned, or it panicked
ParseOver == pc \in {"returned", "panicked"}
Returned == pc = "returned" /\ presult # None
ReturnedOk == Returned /\ presult[1].ok
ReturnedError(kind) == Returned /\ ~presult[1].ok /\ presult[1].kind = kind

\* C9: for every identifier id and primitive keyword p, "let id: p;" lexes to
\* exactly Let, Identifier(id), Colon, VarType(p), Semicolon, and parse_program
\* returns a Program of exactly one statement, the Declaration of the Variable
\* id with the type p names.
C9_LetDeclaration ==
    \A id \in ExampleIdents, p \in Keywords :
        (src = LetDeclText(id, p) /\ ParseOver) =>
            /\ TypesOf(Emitted) = <<"Let", "Identifier", "Colon", "VarType", "Semicolon">>
            /\ ValuesOf(Emitted) = <<s_let, id, <<":">>, p, <<";">> >>
            /\ ReturnedOk
            /\ Len(presult[1].v) = 1
            /\ presult[1].v[1].value.tag = "Declaration"
            /\ presult[1].v[1].value.var.value = Variable_new(id, Some(KeywordType(p)))

\* C9's case: "let _b1: u64;" was parsed to its end
C9_Witness ==
    /\ src = LetDeclText(<<"_", "b", "1">>, s_u64)
    /\ ReturnedOk
    /\ Len(presult[1].v) = 1

\* the tokens of let declarations, the last of them cut off after 'let', after the
\* identifier, after ':' or after the type, with nothing left to read
LetDeclTypes == <<"Let", "Identifier", "Colon", "VarType", "Semicolon">>
CutOffLet ==
    /\ input = <<>>
    /\ Len(Emitted) % Len(LetDeclTypes) # 0
    /\ \A i \in 1..Len(Emitted) :
            Emitted[i].ty = LetDeclTypes[((i - 1) % Len(LetDeclTypes)) + 1]

\* C10: a let statement that the end of the input cuts off at a token boundary
\* after 'let' makes parse_program return an UnexpectedEOF error: it does not
\* panic and it returns no Program.
C10_CutOffLetIsUnexpectedEOF ==
    (ParseOver /\ CutOffLet) => ReturnedError("UnexpectedEOF")

\* C10's case: "let a: i32", the terminator missing, was parsed to its end
C10_Witness ==
    /\ src = <<"l", "e", "t", " ", "a", ":", " ", "i", "3", "2">>
    /\ ParseOver
    /\ CutOffLet

\* C11: a let statement whose type annotation is a word that is not a type keyword
\* ("let a: foo;") makes parse_program return an InvalidType error whose message
\* holds the word and whose position is that of the word's token.
C11_UnknownTypeIsInvalidType ==
    \A w \in UnknownTypeWords :
        (src = LetDeclText(<<"a">>, w) /\ ParseOver) =>
            /\ ReturnedError("InvalidType")
            /\ IsSubstring(w, presult[1].message)
            /\ presult[1].position = Some([line |-> 0, col |-> 7])

\* the tokens before the i-th are whole let declarations, so that the i-th starts
\* a statement
StartsStatement(i) ==
    /\ i % Len(LetDeclTypes) = 1
    /\ \A j \in 1..(i - 1) :
            Emitted[j].ty = LetDeclTypes[((j - 1) % Len(LetDeclTypes)) + 1]
StatementStarts == {"Let", "Auto", "Return", "If"}

\* C12: when a statement starts with a token that is none of let, auto, return and
\* if, parse_program returns an UnexpectedToken error that has the position of
\* that token.
C12_OtherLeadingTokenIsUnexpectedToken ==
    \A i \in 1..Len(Emitted) :
        (ParseOver /\ StartsStatement(i) /\ Emitted[i].ty \notin StatementStarts) =>
            /\ ReturnedError("UnexpectedToken")
            /\ presult[1].position = Some(Emitted[i].pos)

\* parse_program returned a Program of one statement
OneStatement == ReturnedOk /\ Len(presult[1].v) = 1
TheStatement == presult[1].v[1].value

\* C13: "if a { } else { }" parses to one Condition statement whose alternative
\* is present and "if a { }" to one whose alternative is absent; in both
\* parse_program returns normally, with the condition and the consequence filled
\* in.
C13_ConditionalParses ==
    /\ (src = IfElseText /\ ParseOver) =>
            /\ OneStatement
            /\ TheStatement.tag = "Condition"
            /\ TheStatement.condition.value = Expression_Identifier(<<"a">>)
            /\ TheStatement.consequence.value = BlockStatement(<<>>)
            /\ TheStatement.alternative # None
    /\ (src = IfText /\ ParseOver) =>
            /\ OneStatement
            /\ TheStatement.tag = "Condition"
            /\ TheStatement.condition.value = Expression_Identifier(<<"a">>)
            /\ TheStatement.consequence.value = BlockStatement(<<>>)
            /\ TheStatement.alternative = None

\* the expression of the one return statement parse_program returned
TheExpression == TheStatement.expr.value
IsLeaf(e) == e.value.tag \in {"Literal", "Identifier"}

\* C14: the expression parser resolves operators by precedence and associativity:
\* "1 + 2 * 3" is Add(1, Mul(2, 3)), "2 ** 3 ** 2" is Pow(2, Pow(3, 2)) and
\* "a ? b : c ? d : e" is Ternary(a, b, Ternary(c, d, e)).
C14_PrecedenceAndAssociativity ==
    /\ (src = ReturnStatementText(AddMulText) /\ ParseOver) =>
            /\ OneStatement
            /\ TheStatement.tag = "Return"
            /\ TheExpression.tag = "Add"
            /\ IsLeaf(TheExpression.l)
            /\ TheExpression.r.value.tag = "Mul"
            /\ IsLeaf(TheExpression.r.value.l) /\ IsLeaf(TheExpression.r.value.r)
    /\ (src = ReturnStatementText(PowPowText) /\ ParseOver) =>
            /\ OneStatement
            /\ TheStatement.tag = "Return"
            /\ TheExpression.tag = "Pow"
            /\ IsLeaf(TheExpression.l)
            /\ TheExpression.r.value.tag = "Pow"
            /\ IsLeaf(TheExpression.r.value.l) /\ IsLeaf(TheExpression.r.value.r)
    /\ (src = ReturnStatementText(TernaryText) /\ ParseOver) =>
            /\ OneStatement
            /\ TheStatement.tag = "Return"
            /\ TheExpression.tag = "Ternary"
            /\ TheExpression.c.value = Expression_Identifier(<<"a">>)
            /\ TheExpression.t.value = Expression_Identifier(<<"b">>)
            /\ TheExpression.e.value.tag = "Ternary"
            /\ TheExpression.e.value.c.value = Expression_Identifier(<<"c">>)

\* parse_program returned an error
ReturnedFault == Returned /\ ~presult[1].ok

\* the token types of a statement that is so far as the parser wants it: the
\* start of a let declaration or of an auto definition
AutoTypes == <<"Auto", "Identifier">>
GoodPrefix(ts) ==
    \/ Len(ts) < Len(LetDeclTypes) /\ ts = SubSeq(LetDeclTypes, 1, Len(ts))
    \/ Len(ts) <= Len(AutoTypes) /\ ts = SubSeq(AutoTypes, 1, Len(ts))

\* the token type ty is not one the parser takes after the good prefix ts
Deviates(ts, ty) ==
    CASE ts = <<>> -> ty \notin StatementStarts
      [] ts = <<"Auto">> -> ty # "Identifier"
      [] ts = AutoTypes -> ty # "Assign"
      [] ts = <<"Let", "Identifier", "Colon", "VarType">> -> ty \notin {"Semicolon", "Assign"}
      [] OTHER -> ty # LetDeclTypes[Len(ts) + 1]

\* the token types pulled for the statement that failed: those after the
\* statements parsed before it
FaultyStatement ==
    SubSeq(TypesOf(Emitted), Len(LetDeclTypes) * Len(stmts) + 1, Len(Emitted))

\* C16: when a statement fails to parse, parse_program returns the error of that
\* first fault and no Program, though statements were parsed before it: the
\* tokens before the failed statement are those of the statements parsed, the
\* failed statement is as the parser wants it up to the last thing pulled from the
\* lexer, which is the fault (the end of the input, or a token the parser does not
\* take there, at whose position the error points if it points anywhere), and
\* nothing is pulled or held back after it.
C16_FirstFaultEndsParse ==
    ReturnedFault =>
        /\ "v" \notin DOMAIN presult[1]
        /\ Len(Emitted) >= Len(LetDeclTypes) * Len(stmts)
        /\ \A j \in 1..(Len(LetDeclTypes) * Len(stmts)) :
                Emitted[j].ty = LetDeclTypes[((j - 1) % Len(LetDeclTypes)) + 1]
        /\ peeked \in {None, Some(None)}
        /\ FaultyStatement # <<>>
        /\ IF LexDone
           THEN /\ GoodPrefix(FaultyStatement)
                /\ presult[1].kind = "UnexpectedEOF"
           ELSE /\ GoodPrefix(AllButLast(FaultyStatement))
                /\ Deviates(AllButLast(FaultyStatement), Emitted[Len(Emitted)].ty)
                /\ presult[1].position \in {None, Some(Emitted[Len(Emitted)].pos)}
                /\ presult[1].kind = "UnexpectedToken" =>
                        presult[1].position = Some(Emitted[Len(Emitted)].pos)

\* C16's case: "let a: i32; let : bool;" failed at the second statement's ':', the
\* first statement parsed and the rest of the text unread
C16_Witness ==
    /\ ReturnedError("UnexpectedToken")
    /\ Len(stmts) = 1
    /\ Emitted[Len(Emitted)].ty = "Colon"
    /\ input # <<>>

\* the tree of "let a: i32;" built by hand, as the repository's test builds it,
\* every position the default one
HandBuilt(id, ty) == Node_from(Declaration(Node_from(Variable_new(id, Some(ty)))))
HandBuiltNodes ==
    {HandBuilt(id, ty) : id \in {<<"a">>, <<"b">>}, ty \in {Type_Int(32), Type_Boolean}}
SomePositions == {[line |-> l, col |-> c] : l \in 0..1, c \in 0..1}

\* C17: two nodes are equal exactly when their values are, whatever their
\* positions: a parsed statement is equal to itself moved to any positions and
\* equal to a hand-built node exactly when the values are equal; the statements
\* parsed from "let a: i32;", in any layout of its tokens, are equal to the tree
\* built by hand with default positions (and so to one another).
C17_NodeEqualityIgnoresPositions ==
    /\ \A i \in 1..Len(stmts) :
        /\ \A p \in SomePositions, q \in SomePositions :
                StatementNode_eq(set_end(set_start(stmts[i], p), q), stmts[i])
        /\ \A n \in HandBuiltNodes :
                StatementNode_eq(stmts[i], n) <=> Statement_eq(stmts[i].value, n.value)
    /\ \A text \in LayoutPrograms \cup {LetDeclText(<<"a">>, s_i32)} :
        (src = text /\ ParseOver) =>
            /\ ReturnedOk
            /\ Statements_eq(presult[1].v, <<HandBuilt(<<"a">>, Type_Int(32))>>)

\* C17's case: "let a: i32;", a line break around every token, was parsed: its
\* statement starts and ends away from the default position and is equal to the
\* hand-built one
C17_Witness ==
    /\ src \in LayoutPrograms
    /\ ReturnedOk
    /\ Len(presult[1].v) = 1
    /\ presult[1].v[1].start = [line |-> 1, col |-> 0]
    /\ presult[1].v[1].end = [line |-> 5, col |-> 0]
    /\ presult[1].v[1] # HandBuilt(<<"a">>, Type_Int(32))
    /\ StatementNode_eq(presult[1].v[1], HandBuilt(<<"a">>, Type_Int(32)))

\* C22: "let a: i32 = 1;" parses to the Definition tagged Let of the Variable a
\* with the type i32 and the expression, and "auto a = 1;" to the Definition
\* tagged Auto of the Variable a with no type; both need the ';' at their end:
\* without it the parse fails with UnexpectedToken when another token follows and
\* with UnexpectedEOF when the input ends.
C22_Definitions ==
    /\ (src = LetDefinitionText /\ ParseOver) =>
            /\ OneStatement
            /\ TheStatement.tag = "Definition"
            /\ TheStatement.ty = "Let"
            /\ TheStatement.var.value = Variable_new(<<"a">>, Some(Type_Int(32)))
            /\ TheStatement.expr.value.tag = "Literal"
    /\ (src = AutoDefinitionText /\ ParseOver) =>
            /\ OneStatement
            /\ TheStatement.tag = "Definition"
            /\ TheStatement.ty = "Auto"
            /\ TheStatement.var.value = Variable_new(<<"a">>, None)
            /\ TheStatement.expr.value.tag = "Literal"
    /\ (src \in {AllButLast(LetDefinitionText), AllButLast(AutoDefinitionText)} /\ ParseOver) =>
            ReturnedError("UnexpectedEOF")
    /\ (src \in {AllButLast(LetDefinitionText) \o <<" ", "a">>,
                  AllButLast(AutoDefinitionText) \o <<" ", "a">>} /\ ParseOver) =>
            ReturnedError("UnexpectedToken")

\* the tokens after the first are those of let declarations, the last of which
\* may be cut off
LetDeclarationsAfterFirst(n) ==
    \A j \in 2..n : Emitted[j].ty = LetDeclTypes[((j - 2) % Len(LetDeclTypes)) + 1]

\* consume_block read a '{', whole let declarations and a '}'
WholeBlock ==
    /\ Len(Emitted) >= 2
    /\ Emitted[1].ty = "LBrace"
    /\ Emitted[Len(Emitted)].ty = "RBrace"
    /\ (Len(Emitted) - 2) % Len(LetDeclTypes) = 0
    /\ LetDeclarationsAfterFirst(Len(Emitted) - 1)

\* C23: consume_block takes a '{', the statements up to the next '}' in their
\* order in the text, and the '}', and returns a block that starts at the '{' and
\* ends at the '}'; when the input ends before the '}' it returns an
\* UnexpectedEOF error, and when the first token is not '{' an UnexpectedToken
\* error.
C23_Block ==
    /\ (ParseOver /\ WholeBlock) =>
            /\ ReturnedOk
            /\ presult[1].v.start = Emitted[1].pos
            /\ presult[1].v.end = Emitted[Len(Emitted)].pos
            /\ Len(presult[1].v.value) * Len(LetDeclTypes) = Len(Emitted) - 2
            /\ \A j \in 1..Len(presult[1].v.value) :
                    /\ presult[1].v.value[j].value.tag = "Declaration"
                    /\ presult[1].v.value[j].value.var.value.id =
                            Emitted[Len(LetDeclTypes) * (j - 1) + 3].value
                    /\ presult[1].v.value[j].start = Emitted[Len(LetDeclTypes) * (j - 1) + 2].pos
    /\ (ParseOver /\ LexDone /\ Emitted # <<>> /\ Emitted[1].ty = "LBrace"
            /\ LetDeclarationsAfterFirst(Len(Emitted))) =>
            ReturnedError("UnexpectedEOF")
    /\ (ParseOver /\ Emitted # <<>> /\ Emitted[1].ty # "LBrace") =>
            /\ ReturnedError("UnexpectedToken")
            /\ presult[1].position = Some(Emitted[1].pos)
            /\ Len(calls) = 1

\* C23's case: a block of two let declarations was read to its '}'
C23_Witness ==
    /\ block.entered
    /\ ReturnedOk
    /\ WholeBlock
    /\ Len(presult[1].v.value) = 2
    /\ presult[1].v.end # Position_default

\* the token the parser has pulled from the lexer and not yet consumed
HeldBack == IF peeked # None /\ peeked[1] # None THEN <<peeked[1][1]>> ELSE <<>>

\* a, what a peek gave: it took no token out of the stream and left one item in
\* the slot, which the next consume gives without a call of the lexer
PeekThenConsume(a) ==
    /\ a.took = <<>>
    /\ a.p.peeked # None
    /\ consume_unchecked(a.p).took = a.p.peeked[1]
    /\ consume_unchecked(a.p).made = <<>>
PeekTypes == {"Assign", "Semicolon", "RBrace", "Else", "Let"}

\* no peek in any state of the parse consumes a token
PeeksKeepTheToken ==
    /\ PeekThenConsume(peek_unchecked(ThePeekable))
    /\ peek_unchecked(ThePeekable).res = peek_unchecked(ThePeekable).p.peeked[1]
    /\ \A ty \in PeekTypes :
            /\ PeekThenConsume(peek(ThePeekable, ty))
            /\ PeekThenConsume(peek_next(ThePeekable, ty))
            /\ peek_next(ThePeekable, ty).res \in {None, peek_unchecked(ThePeekable).res}

\* C24: at every step of a parse the parser holds at most one token pulled from
\* the lexer and not consumed, and the tokens consumed, with the one held, are the
\* lexer's tokens in the lexer's order; peek, peek_next and peek_unchecked consume
\* no token; a consume after a peek gives the token peeked and pulls none.
C24_OneTokenOfLookahead ==
    /\ [](Emitted = taken \o HeldBack /\ PeeksKeepTheToken)
    /\ [][(taken' # taken /\ HeldBack # <<>>) =>
                (taken' = taken \o HeldBack /\ calls' = calls)]_vars

\* C24's case: in "let a: i32;" the ';' was peeked for an '=' and is held, the
\* four tokens before it consumed
C24_Witness ==
    /\ pc = "let_semicolon"
    /\ Len(taken) = 4
    /\ HeldBack # <<>>
    /\ HeldBack[1].ty = "Semicolon"
    /\ Len(Emitted) = 5

\* a is what is left of b after some of its first characters are read
IsSuffix(a, b) == Len(a) <= Len(b) /\ a = SubSeq(b, Len(b) - Len(a) + 1, Len(b))

\* every call leaves a suffix of what it found, a shorter one when it found more
\* than whitespace, and finds what the call before it left
LexerProgress ==
    \A i \in 1..Len(calls) :
        /\ IsSuffix(calls[i].after, calls[i].before)
        /\ Seen(i) # <<>> => Len(calls[i].after) < Len(calls[i].before)
        /\ calls[i].before = IF i = 1 THEN src ELSE calls[i - 1].after

\* a None is among the first Len(src) + 1 calls
NoneInTime ==
    Len(calls) >= Len(src) + 1 => \E i \in 1..(Len(src) + 1) : calls[i].ret = None

\* the texts made of let declarations
LetDeclarationPrograms ==
    {LetDeclText(id, p) : id \in ExampleIdents, p \in Keywords}
        \cup LayoutPrograms
        \cup {<<>>, <<" ", "\n">>,
              LetDeclText(<<"a">>, s_i32) \o <<" ">> \o LetDeclText(<<"b">>, s_bool),
              join(<<s_let, <<"a">>, <<":">>, s_i32, <<";">> >>, <<" ">>)}

\* C25: every call of next_token on an input that holds more than whitespace
\* reads at least one character and no call un-reads one, so that a None is
\* returned within Len(src) + 1 calls; and parse_program on a text made of let
\* declarations comes to its return.
C25_Termination ==
    /\ [](LexerProgress /\ NoneInTime)
    /\ (pc = "statement" /\ calls = <<>> /\ src \in LetDeclarationPrograms) ~> ReturnedOk

\* C25's case: two let declarations were parsed to the end of the input, the last
\* call of next_token the one that returned None
C25_Witness ==
    /\ src = LetDeclText(<<"a">>, s_i32) \o <<" ">> \o LetDeclText(<<"b">>, s_bool)
    /\ ReturnedOk
    /\ Len(presult[1].v) = 2
    /\ LexDone
    /\ Len(calls) = 11

=============================================================================
